---- MODULE Spec2Model ----
(***************************************************************************)
(* The HTML extraction layer of tp-lint (src/tp_lint.py): the three        *)
(* html.parser.HTMLParser subclasses TeamPageParser, TeamIndexParser and   *)
(* MatrixParser, driven by the start-tag, text and end-tag events that     *)
(* HTMLParser.feed delivers.                                               *)
(*                                                                         *)
(* Text is a sequence of characters, each character a one-character        *)
(* string; NBSP and SUP2 stand for U+00A0 and U+00B2.  Python's None is    *)
(* the value None below, which is no character sequence.  A dict is a      *)
(* function whose DOMAIN is the set of its keys.                           *)
(*                                                                         *)
(* Fields that are assigned and never read anywhere in the program are     *)
(* not part of the state: TeamPageParser._in_table and _current_translator *)
(* and MatrixParser._current_href.                                         *)
(***************************************************************************)
EXTENDS Integers, Sequences, FiniteSets, TLC

VARIABLES
    page,                   \* which extractor this pass feeds, or "main"
    texts,                  \* the texts the page's text events are drawn from
    raised,                 \* the exception that escaped the handlers, or "none"
    \* TeamPageParser
    po_files, translators, tp_current_domain, tp_in_translator_cell,
    \* TeamIndexParser
    ix_languages, prev_tag, current_lang_name,
    \* MatrixParser
    languages, lang_percentages, domains, domain_counts,
    in_header, in_pct_row, current_row, mx_current_domain, cell_index,
    in_td, td_content,
    \* main: the options, locals and position of a lint run
    run,
    \* history of the events fed so far (read by the properties only)
    po_targets, in_row, row_po_domains, row_detail_domains,
    seen_mail, seen_domains, armed_text, matched_links, skipped_at,
    rows_closed, cell_open, opened_text, row_link_domains, link_texts,
    row_po_names

tp_vars == <<po_files, translators, tp_current_domain, tp_in_translator_cell>>
ix_vars == <<ix_languages, prev_tag, current_lang_name>>
mx_vars == <<languages, lang_percentages, domains, domain_counts,
             in_header, in_pct_row, current_row, mx_current_domain, cell_index,
             in_td, td_content>>
tp_hist == <<po_targets, in_row, row_po_domains, row_detail_domains,
             seen_mail, seen_domains, armed_text,
            row_po_names>>
ix_hist == <<matched_links, skipped_at, link_texts>>
mx_hist == <<rows_closed, cell_open, opened_text, row_link_domains>>
vars == <<page, texts, raised, tp_vars, ix_vars, mx_vars, run,
          tp_hist, ix_hist, mx_hist>>

----------------------------------------------------------------------------
(* Bounds of the exploration.                                              *)

MaxPoFiles == 2
MaxEntries == 2
MaxLinks == 2
MaxCells == 3
MaxCellLen == 4
MaxRows == 2

----------------------------------------------------------------------------
(* Characters and text.                                                    *)

NBSP == "nbsp"
SUP2 == "sup2"
\* the characters "\x0b", "\x1c", "\x1d", "\x1e", "\x1f" and "\x85"
VT == "x0b"
FS == "x1c"
GS == "x1d"
RS == "x1e"
US == "x1f"
NEL == "x85"
\* the space characters above "\xa0": "\u1680", "\u2000" to "\u200a",
\* "\u2028", "\u2029", "\u202f", "\u205f", "\u3000"
UnicodeSpaces == {"u1680", "u2000", "u2001", "u2002", "u2003", "u2004", "u2005",
                  "u2006", "u2007", "u2008", "u2009", "u200a", "u2028", "u2029",
                  "u202f", "u205f", "u3000"}
None == <<"None">>

Digits == {"0", "1", "2", "3", "4", "5", "6", "7", "8", "9"}
Lower == {"a", "b", "c", "d", "e", "f", "g", "h", "i", "j", "k", "l", "m",
          "n", "o", "p", "q", "r", "s", "t", "u", "v", "w", "x", "y", "z"}
Upper == {"A", "B", "C", "D", "E", "F", "G", "H", "I", "J", "K", "L", "M",
          "N", "O", "P", "Q", "R", "S", "T", "U", "V", "W", "X", "Y", "Z"}
\* the characters str.strip() removes (those str.isspace() accepts)
Whitespace == {" ", "\t", "\n", "\f", "\r", VT, FS, GS, RS, US, NEL, NBSP}
                  \cup UnicodeSpaces
\* the characters int() removes around a number: "\x1c" to "\x1f" stay
IntWhitespace == Whitespace \ {FS, GS, RS, US}

DigitVal(c) ==
    CASE c = "0" -> 0 [] c = "1" -> 1 [] c = "2" -> 2 [] c = "3" -> 3
      [] c = "4" -> 4 [] c = "5" -> 5 [] c = "6" -> 6 [] c = "7" -> 7
      [] c = "8" -> 8 [] c = "9" -> 9

TP_BASE == <<"h", "t", "t", "p", "s", ":", "/", "/", "t", "r", "a", "n", "s", "l", "a", "t", "i", "o", "n", "p", "r", "o", "j", "e", "c", "t", ".", "o", "r", "g">>
S_PoFiles == <<"/", "P", "O", "-", "f", "i", "l", "e", "s", "/">>
S_DotPo == <<".", "p", "o">>
S_DotDotSlash == <<".", ".", "/">>
S_Slash == <<"/">>
S_Domain == <<"/", "d", "o", "m", "a", "i", "n", "/">>
S_DotDotDomain == <<".", ".", "/", "d", "o", "m", "a", "i", "n", "/">>
S_DotHtml == <<".", "h", "t", "m", "l">>
S_Mailto == <<"m", "a", "i", "l", "t", "o", ":">>
S_Team == <<"/", "t", "e", "a", "m", "/">>
S_Pct == <<"P", "c", "t">>
S_Href == <<"h", "r", "e", "f">>

\* tag names, as HTMLParser passes them to the handlers
Tag_a == <<"a">>
Tag_td == <<"t", "d">>
Tag_th == <<"t", "h">>
Tag_tr == <<"t", "r">>
Tag_thead == <<"t", "h", "e", "a", "d">>
Tag_tbody == <<"t", "b", "o", "d", "y">>

\* str.startswith, str.endswith, the in operator on str, and slicing s[n:]
StartsWith(s, p) == Len(s) >= Len(p) /\ SubSeq(s, 1, Len(p)) = p
EndsWith(s, p) == Len(s) >= Len(p) /\ SubSeq(s, Len(s) - Len(p) + 1, Len(s)) = p
Contains(s, p) ==
    \E i \in 1..(Len(s) - Len(p) + 1) : SubSeq(s, i, i + Len(p) - 1) = p
DropFirst(s, n) == SubSeq(s, n + 1, Len(s))

\* the least index of character c in s at or after position from, 0 if none
RECURSIVE IndexFrom(_, _, _)
IndexFrom(s, c, from) ==
    IF from > Len(s) THEN 0
    ELSE IF s[from] = c THEN from
    ELSE IndexFrom(s, c, from + 1)

\* s.split("/")[-1]: the text after the last "/"
RECURSIVE LastSegment(_)
LastSegment(s) ==
    LET i == IndexFrom(s, "/", 1)
    IN  IF i = 0 THEN s ELSE LastSegment(DropFirst(s, i))

\* str.strip(): leading and trailing whitespace removed
RECURSIVE LStrip(_)
LStrip(s) ==
    IF s # <<>> /\ s[1] \in Whitespace THEN LStrip(Tail(s)) ELSE s
RECURSIVE RStrip(_)
RStrip(s) ==
    IF s # <<>> /\ s[Len(s)] \in Whitespace
    THEN RStrip(SubSeq(s, 1, Len(s) - 1)) ELSE s
Strip(s) == RStrip(LStrip(s))

\* the whitespace int() skips before and after the digits
RECURSIVE IntLStrip(_)
IntLStrip(s) ==
    IF s # <<>> /\ s[1] \in IntWhitespace THEN IntLStrip(Tail(s)) ELSE s
RECURSIVE IntRStrip(_)
IntRStrip(s) ==
    IF s # <<>> /\ s[Len(s)] \in IntWhitespace
    THEN IntRStrip(SubSeq(s, 1, Len(s) - 1)) ELSE s
IntStrip(s) == IntRStrip(IntLStrip(s))

\* s.replace("%", "")
RemovePercent(s) == SelectSeq(s, LAMBDA c : c # "%")

\* a pattern's tail p followed by $: at the end, or before a final newline
AtEnd(s, p) == s = p \/ s = p \o <<"\n">>

\* the truth value Python gives a str or None
Truthy(x) == x # None /\ x # <<>>

\* dict(attrs).get(key, default): the last pair named key decides
RECURSIVE AttrsGet(_, _, _)
AttrsGet(attrs, key, default) ==
    IF attrs = <<>> THEN default
    ELSE LET last == attrs[Len(attrs)]
         IN  IF last[1] = key THEN last[2]
             ELSE AttrsGet(SubSeq(attrs, 1, Len(attrs) - 1), key, default)

\* d[key] = value on a dict
DictSet(d, key, value) ==
    [k \in (DOMAIN d) \cup {key} |-> IF k = key THEN value ELSE d[k]]
EmptyDict == [k \in {} |-> 0]

----------------------------------------------------------------------------
(* TeamPageParser                                                          *)

\* re.match(r"([^-]+)-.*\.po$", filename): group 1, or None
FilenameDomain(filename) ==
    LET i == IndexFrom(filename, "-", 1)
        rest == DropFirst(filename, i)
    IN  IF i > 1 /\ (AtEnd(rest, S_DotPo) \/ \E k \in 1..Len(rest) :
                        /\ AtEnd(DropFirst(rest, k), S_DotPo)
                        /\ IndexFrom(SubSeq(rest, 1, k), "\n", 1) = 0)
        THEN SubSeq(filename, 1, i - 1)
        ELSE None

\* re.match(r"\.\./domain/([^.]+)\.html$", href): group 1, or None
DomainLinkDomain(href) ==
    IF ~StartsWith(href, S_DotDotDomain) THEN None
    ELSE LET rest == DropFirst(href, Len(S_DotDotDomain))
             i == IndexFrom(rest, ".", 1)
         IN  IF i > 1 /\ AtEnd(DropFirst(rest, i - 1), S_DotHtml)
             THEN SubSeq(rest, 1, i - 1)
             ELSE None

\* re.match(r"([^.]+)\..*\.po$", filename): group 1, or None
FilenameStem(filename) ==
    LET i == IndexFrom(filename, ".", 1)
        rest == DropFirst(filename, i)
    IN  IF i > 1 /\ (AtEnd(rest, S_DotPo) \/ \E k \in 1..Len(rest) :
                        /\ AtEnd(DropFirst(rest, k), S_DotPo)
                        /\ IndexFrom(SubSeq(rest, 1, k), "\n", 1) = 0)
        THEN SubSeq(filename, 1, i - 1)
        ELSE None

get_domain_from_filename(filename) ==
    IF FilenameDomain(filename) # None THEN FilenameDomain(filename)
    ELSE IF FilenameStem(filename) # None THEN FilenameStem(filename)
    ELSE filename

IsPoLink(href) == Contains(href, S_PoFiles) /\ EndsWith(href, S_DotPo)

\* NormalizeHref with the "../" prefix cut one character short (href[2:])
NormalizeHref_CutTwo(href) ==
    IF StartsWith(href, S_DotDotSlash) THEN TP_BASE \o S_Slash \o DropFirst(href, 2)
    ELSE IF StartsWith(href, S_Slash) THEN TP_BASE \o href
    ELSE href

\* lines 89-92: the relative target made absolute
NormalizeHref(href) ==
    IF StartsWith(href, S_DotDotSlash) THEN TP_BASE \o S_Slash \o DropFirst(href, 3)
    ELSE IF StartsWith(href, S_Slash) THEN TP_BASE \o href
    ELSE href

\* line 93 as an append that drops a URL the list already holds
AppendPoFile_Dedup(files, url) ==
    IF \E k \in 1..Len(files) : files[k] = url THEN files ELSE Append(files, url)

\* line 93: self.po_files.append(href)
AppendPoFile(files, url) == Append(files, url)

TP_handle_starttag(tag, attrs) ==
    LET href == AttrsGet(attrs, S_Href, <<>>)
    IN  IF tag # Tag_a
        THEN UNCHANGED <<tp_vars, raised>>
        ELSE IF href = None
        THEN \* "/PO-files/" in None
             /\ raised' = "TypeError"
             /\ UNCHANGED tp_vars
        ELSE IF IsPoLink(href)
        THEN LET url == NormalizeHref(href)
                 match == FilenameDomain(LastSegment(url))
             IN  /\ po_files' = AppendPoFile(po_files, url)
                 /\ tp_current_domain' =
                        IF match # None THEN match ELSE tp_current_domain
                 /\ UNCHANGED <<translators, tp_in_translator_cell, raised>>
        ELSE IF Contains(href, S_Domain)
        THEN LET match == DomainLinkDomain(href)
             IN  /\ tp_current_domain' =
                        IF match # None THEN match ELSE tp_current_domain
                 /\ UNCHANGED <<po_files, translators, tp_in_translator_cell, raised>>
        ELSE IF Contains(href, S_Mailto)
        THEN /\ tp_in_translator_cell' = TRUE
             /\ UNCHANGED <<po_files, translators, tp_current_domain, raised>>
        ELSE UNCHANGED <<tp_vars, raised>>

TP_handle_data(text) ==
    LET data == Strip(text)
    IN  IF tp_in_translator_cell /\ data # <<>> /\ Truthy(tp_current_domain)
        THEN /\ translators' = DictSet(translators, tp_current_domain, data)
             /\ tp_in_translator_cell' = FALSE
             /\ UNCHANGED <<po_files, tp_current_domain>>
        ELSE UNCHANGED tp_vars

\* handle_endtag without the reset of _in_translator_cell
TP_handle_endtag_KeepsCell(tag) ==
    IF tag = Tag_tr
    THEN /\ tp_current_domain' = None
         /\ UNCHANGED <<po_files, translators, tp_in_translator_cell>>
    ELSE UNCHANGED tp_vars

TP_handle_endtag(tag) ==
    IF tag = Tag_tr
    THEN /\ tp_current_domain' = None
         /\ tp_in_translator_cell' = FALSE
         /\ UNCHANGED <<po_files, translators>>
    ELSE UNCHANGED tp_vars

\* The links, texts and tags a team page is drawn from.
TP_Hrefs == {
    <<".", ".">> \o S_PoFiles \o <<"c", "o", "r", "e", "u", "t", "i", "l", "s", "-", "9", ".", "1", ".", "s", "v", ".", "p", "o">>,
    S_PoFiles \o <<"c", "o", "r", "e", "u", "t", "i", "l", "s", "-", "9", ".", "1", ".", "s", "v", ".", "p", "o">>,
    <<"s", "v">> \o S_PoFiles \o <<"x", ".", "p", "o">>,
    S_DotDotSlash \o <<".", ".">> \o S_PoFiles \o <<"g", "n", "u", "-", "t", "o", "o", "l", "s", "-", "1", ".", "s", "v", ".", "p", "o">>,
    S_DotDotDomain \o <<"f", "i", "n", "d", "u", "t", "i", "l", "s">> \o S_DotHtml,
    S_Mailto \o <<"a", "@", "b", ".", "s", "e">> }
\* The links and texts of a team page whose row lists the file of a
\* domain with a hyphen in its name, the domain's detail link and a mail link.
TP_FileHrefs == {
    S_DotDotSlash \o <<".", ".">> \o S_PoFiles \o <<"g", "n", "u", "-", "t", "o", "o", "l", "s", "-", "1", ".", "s", "v", ".", "p", "o">>,
    S_DotDotSlash \o <<".", ".">> \o S_PoFiles \o <<"x", ".", "s", "v", ".", "p", "o">>,
    S_DotDotDomain \o <<"g", "n", "u", "-", "t", "o", "o", "l", "s">> \o S_DotHtml,
    S_Mailto \o <<"a", "@", "b", ".", "s", "e">> }
TP_FileTexts == {<<"A", "n", "n", "a">>}
TP_Attrs ==
    {<<>>, <<<<S_Href, None>>>>} \cup
    {<<<<S_Href, h>>>> : h \in IF texts = TP_FileTexts THEN TP_FileHrefs ELSE TP_Hrefs}
TP_Tags == {Tag_a, Tag_td, Tag_tr}
TP_Texts == {<<"A", "n", "n", "a">>, <<"\f", "B", "o", "\n">>, <<" ">>}

\* the domain a link sets as _current_domain, or None
TP_LinkDomain(href) ==
    IF IsPoLink(href) THEN FilenameDomain(LastSegment(NormalizeHref(href)))
    ELSE IF Contains(href, S_Domain) THEN DomainLinkDomain(href)
    ELSE None

TP_StartTag ==
    /\ page = "team" /\ raised = "none"
    /\ \E tag \in TP_Tags, attrs \in TP_Attrs :
         LET href == AttrsGet(attrs, S_Href, <<>>)
             link == tag = Tag_a /\ href # None
             po == link /\ IsPoLink(href)
             dom == IF link THEN TP_LinkDomain(href) ELSE None
         IN  /\ po => Len(po_files) < MaxPoFiles
             /\ TP_handle_starttag(tag, attrs)
             /\ po_targets' = IF po THEN Append(po_targets, href) ELSE po_targets
             /\ in_row' = (in_row \/ tag = Tag_tr)
             /\ row_po_domains' =
                    IF tag = Tag_tr THEN {}
                    ELSE IF po /\ dom # None THEN row_po_domains \cup {dom}
                    ELSE row_po_domains
             /\ row_detail_domains' =
                    IF tag = Tag_tr THEN {}
                    ELSE IF ~po /\ dom # None THEN row_detail_domains \cup {dom}
                    ELSE row_detail_domains
             /\ row_po_names' =
                    IF tag = Tag_tr THEN {}
                    ELSE IF po THEN row_po_names \cup {LastSegment(NormalizeHref(href))}
                    ELSE row_po_names
             /\ seen_domains' =
                    IF dom # None THEN seen_domains \cup {dom} ELSE seen_domains
             /\ seen_mail' =
                    (seen_mail \/ (link /\ ~IsPoLink(href) /\ ~Contains(href, S_Domain)
                                        /\ Contains(href, S_Mailto)))
             /\ armed_text' =
                    IF link /\ ~IsPoLink(href) /\ ~Contains(href, S_Domain)
                            /\ Contains(href, S_Mailto)
                    THEN None ELSE armed_text
    /\ UNCHANGED <<page, texts, run, ix_vars, mx_vars, ix_hist, mx_hist>>

TP_Data ==
    /\ page = "team" /\ raised = "none"
    /\ \E text \in texts :
         /\ TP_handle_data(text)
         /\ armed_text' =
                IF tp_in_translator_cell /\ Strip(text) # <<>>
                THEN IF Truthy(tp_current_domain) THEN None
                     ELSE IF armed_text = None THEN Strip(text)
                     ELSE armed_text
                ELSE armed_text
    /\ UNCHANGED <<page, texts, run, raised, ix_vars, mx_vars, po_targets, in_row,
                   row_po_domains, row_detail_domains, seen_mail, seen_domains,
                   row_po_names, ix_hist, mx_hist>>

TP_EndTag ==
    /\ page = "team" /\ raised = "none"
    /\ \E tag \in TP_Tags :
         /\ TP_handle_endtag(tag)
         /\ in_row' = (in_row /\ tag # Tag_tr)
         /\ row_po_domains' = IF tag = Tag_tr THEN {} ELSE row_po_domains
         /\ row_detail_domains' = IF tag = Tag_tr THEN {} ELSE row_detail_domains
         /\ row_po_names' = IF tag = Tag_tr THEN {} ELSE row_po_names
         /\ seen_domains' = IF tag = Tag_tr THEN {} ELSE seen_domains
         /\ seen_mail' = (seen_mail /\ tag # Tag_tr)
         /\ armed_text' = IF tag = Tag_tr THEN None ELSE armed_text
    /\ UNCHANGED <<page, texts, run, raised, po_targets, ix_vars, mx_vars, ix_hist, mx_hist>>

NextTeam == TP_StartTag \/ TP_Data \/ TP_EndTag

----------------------------------------------------------------------------
(* TeamIndexParser                                                         *)

AllIn(s, chars) == \A i \in 1..Len(s) : s[i] \in chars

\* re.match(r"([a-z]{2,3})\.html$", href) matches
LangPageMatch(href) ==
    \E n \in {2, 3} :
        /\ Len(href) >= n
        /\ AllIn(SubSeq(href, 1, n), Lower)
        /\ AtEnd(DropFirst(href, n), S_DotHtml)

\* re.match(r"^[A-Z][a-z]+", data) matches
CapitalizedWord(data) ==
    Len(data) >= 2 /\ data[1] \in Upper /\ data[2] \in Lower

\* re.match(r"^[a-z]{2,3}$", data) matches
LangCode(data) ==
    \E n \in {2, 3} :
        /\ Len(data) >= n
        /\ AllIn(SubSeq(data, 1, n), Lower)
        /\ AtEnd(DropFirst(data, n), <<>>)

\* line 134 left out: the pending name outlives a matching link
MatchedLinkName_Kept(name) == name

\* line 134: self.current_lang_name = None
MatchedLinkName(name) == None

IX_handle_starttag(tag, attrs) ==
    LET href == AttrsGet(attrs, S_Href, <<>>)
    IN  /\ prev_tag' = tag
        /\ IF tag # Tag_a
           THEN UNCHANGED <<ix_languages, current_lang_name, raised>>
           ELSE IF href = None
           THEN \* re.match(pattern, None)
                /\ raised' = "TypeError"
                /\ UNCHANGED <<ix_languages, current_lang_name>>
           ELSE /\ current_lang_name' =
                      IF LangPageMatch(href) THEN MatchedLinkName(current_lang_name)
                                             ELSE current_lang_name
                /\ UNCHANGED <<ix_languages, raised>>

\* lines 141-142 without the test of current_lang_name
IX_Emits_NoName(tag, data, name) == tag = Tag_td /\ LangCode(data)

\* lines 141-142: the conditions under which a text is emitted as a code
IX_Emits(tag, data, name) == tag = Tag_td /\ LangCode(data) /\ Truthy(name)

IX_handle_data(text) ==
    LET data == Strip(text)
    IN  IF prev_tag = Tag_a /\ data # <<>> /\ ~StartsWith(data, S_Mailto)
        THEN /\ current_lang_name' =
                   IF CapitalizedWord(data) THEN data ELSE current_lang_name
             /\ UNCHANGED <<ix_languages, prev_tag>>
        ELSE IF IX_Emits(prev_tag, data, current_lang_name)
        THEN /\ ix_languages' = Append(ix_languages, <<data, current_lang_name>>)
             /\ UNCHANGED <<prev_tag, current_lang_name>>
        ELSE UNCHANGED ix_vars

\* The links, texts and tags an index page is drawn from.
IX_Hrefs == { <<"s", "v">> \o S_DotHtml,
              <<"i", "n", "d", "e", "x">> \o S_DotHtml }
IX_Attrs == {<<>>, <<<<S_Href, None>>>>} \cup {<<<<S_Href, h>>>> : h \in IX_Hrefs}
IX_Tags == {Tag_a, Tag_td}
IX_Texts == { <<"S", "w", "e", "d", "i", "s", "h">>, <<"F", "i", "n", "n", "i", "s", "h">>,
              <<"s", "v">>, <<" ", "f", "i", "n", "\f">>, <<"h", "o", "m", "e">> }

IX_StartTag ==
    /\ page = "index" /\ raised = "none"
    /\ \E tag \in IX_Tags, attrs \in IX_Attrs :
         LET href == AttrsGet(attrs, S_Href, <<>>)
             matched == tag = Tag_a /\ href # None /\ LangPageMatch(href)
         IN  /\ matched => matched_links < MaxLinks
             /\ IX_handle_starttag(tag, attrs)
             /\ matched_links' = IF matched THEN matched_links + 1 ELSE matched_links
             /\ link_texts' = IF matched THEN {} ELSE link_texts
    /\ UNCHANGED <<page, texts, run, tp_vars, mx_vars, tp_hist, skipped_at, mx_hist>>

IX_Data ==
    /\ page = "index" /\ raised = "none"
    /\ \E text \in texts :
         /\ IX_handle_data(text)
         /\ Len(ix_languages') <= MaxEntries
         /\ skipped_at' =
                IF skipped_at < 0 /\ prev_tag = Tag_td /\ LangCode(Strip(text))
                                  /\ ~Truthy(current_lang_name)
                THEN Len(ix_languages) ELSE skipped_at
         /\ link_texts' = IF prev_tag = Tag_a /\ Strip(text) # <<>>
                           THEN link_texts \cup {Strip(text)} ELSE link_texts
    /\ UNCHANGED <<page, texts, run, raised, tp_vars, mx_vars, tp_hist, matched_links,
                   mx_hist>>

NextIndex == IX_StartTag \/ IX_Data

----------------------------------------------------------------------------
(* MatrixParser                                                            *)

\* re.search(seg + r"([^.]+)\.html", href): group 1 of the leftmost match, or None
RECURSIVE SearchGroupFrom(_, _, _)
SearchGroupFrom(href, seg, from) ==
    IF from + Len(seg) - 1 > Len(href) THEN None
    ELSE LET rest == DropFirst(href, from + Len(seg) - 1)
             i == IndexFrom(rest, ".", 1)
         IN  IF /\ SubSeq(href, from, from + Len(seg) - 1) = seg
                /\ i > 1
                /\ StartsWith(DropFirst(rest, i - 1), S_DotHtml)
             THEN SubSeq(rest, 1, i - 1)
             ELSE SearchGroupFrom(href, seg, from + 1)
SearchGroup(href, seg) == SearchGroupFrom(href, seg, 1)

\* str.isdigit(): not empty, every character a digit (a superscript digit is one)
IsDigit(s) == s # <<>> /\ AllIn(s, Digits \cup {SUP2})

\* the value of a string of decimal digits and underscores
RECURSIVE DigitsValue(_)
DigitsValue(s) ==
    IF s = <<>> THEN 0
    ELSE IF s[Len(s)] = "_" THEN DigitsValue(SubSeq(s, 1, Len(s) - 1))
    ELSE 10 * DigitsValue(SubSeq(s, 1, Len(s) - 1)) + DigitVal(s[Len(s)])

\* int(s): [ok |-> TRUE, val |-> n], or ok FALSE where int raises ValueError
ParseInt(s) ==
    LET t == IntStrip(s)
        signed == t # <<>> /\ t[1] \in {"+", "-"}
        body == IF signed THEN Tail(t) ELSE t
        wellformed ==
            /\ body # <<>>
            /\ AllIn(body, Digits \cup {"_"})
            /\ body[1] # "_" /\ body[Len(body)] # "_"
            /\ \A i \in 1..(Len(body) - 1) : ~(body[i] = "_" /\ body[i + 1] = "_")
    IN  IF ~wellformed THEN [ok |-> FALSE, val |-> 0]
        ELSE [ok |-> TRUE,
              val |-> IF signed /\ t[1] = "-" THEN 0 - DigitsValue(body)
                      ELSE DigitsValue(body)]

\* the summary row's loop leaving out a language whose cell holds no integer
RECURSIVE SummaryLoop_SkipsUnparsed(_, _, _, _)
SummaryLoop_SkipsUnparsed(langs, row, i, pcts) ==
    IF i > Len(langs) THEN pcts
    ELSE IF i + 2 <= Len(row) /\ ParseInt(RemovePercent(row[i + 2])).ok
    THEN SummaryLoop_SkipsUnparsed(langs, row, i + 1,
             DictSet(pcts, langs[i], ParseInt(RemovePercent(row[i + 2])).val))
    ELSE SummaryLoop_SkipsUnparsed(langs, row, i + 1, pcts)

\* the summary row's loop reading cell i+1 for position i
RECURSIVE SummaryLoop_OffsetOne(_, _, _, _)
SummaryLoop_OffsetOne(langs, row, i, pcts) ==
    IF i > Len(langs) THEN pcts
    ELSE IF i + 1 <= Len(row)
    THEN LET n == ParseInt(RemovePercent(row[i + 1]))
         IN  SummaryLoop_OffsetOne(langs, row, i + 1,
                         DictSet(pcts, langs[i], IF n.ok THEN n.val ELSE 0))
    ELSE SummaryLoop_OffsetOne(langs, row, i + 1, pcts)

\* lines 218-224: the summary row's loop, from language i on
RECURSIVE SummaryLoop(_, _, _, _)
SummaryLoop(langs, row, i, pcts) ==
    IF i > Len(langs) THEN pcts
    ELSE IF i + 2 <= Len(row)
    THEN LET n == ParseInt(RemovePercent(row[i + 2]))
         IN  SummaryLoop(langs, row, i + 1,
                         DictSet(pcts, langs[i], IF n.ok THEN n.val ELSE 0))
    ELSE SummaryLoop(langs, row, i + 1, pcts)

\* the domain row's loop storing 0 for a cell it skips or cannot parse
RECURSIVE DomainLoop_StoresZero(_, _, _, _)
DomainLoop_StoresZero(langs, row, i, acc) ==
    IF i > Len(langs) THEN acc
    ELSE IF i + 2 <= Len(row)
    THEN LET n == ParseInt(RemovePercent(row[i + 2]))
         IN  DomainLoop_StoresZero(langs, row, i + 1,
                        IF n.ok /\ Truthy(row[i + 2])
                        THEN [entries |-> DictSet(acc.entries, langs[i], n.val),
                              count |-> acc.count + 1]
                        ELSE [entries |-> DictSet(acc.entries, langs[i], 0),
                              count |-> acc.count])
    ELSE DomainLoop_StoresZero(langs, row, i + 1, acc)

\* lines 232-244: the domain row's loop, from language i on;
\* acc is [entries |-> the dict built so far, count |-> the running count]
RECURSIVE DomainLoop(_, _, _, _)
DomainLoop(langs, row, i, acc) ==
    IF i > Len(langs) THEN acc
    ELSE IF i + 2 <= Len(row) /\ Truthy(row[i + 2]) /\ row[i + 2] # <<NBSP>>
    THEN LET n == ParseInt(RemovePercent(row[i + 2]))
         IN  DomainLoop(langs, row, i + 1,
                        IF n.ok
                        THEN [entries |-> DictSet(acc.entries, langs[i], n.val),
                              count |-> acc.count + 1]
                        ELSE acc)
    ELSE DomainLoop(langs, row, i + 1, acc)

\* line 190 as an assignment instead of an append
AppendLanguage_Assign(langs, lang) == <<lang>>

\* line 190: self.languages.append(lang)
AppendLanguage(langs, lang) == Append(langs, lang)

\* line 211 with the threshold one too low
Discarded_TwoCells(row) == Len(row) < 2

\* line 211: a row of fewer than 3 cells is dropped
Discarded(row) == Len(row) < 3

\* lines 215-228 without the return that ends the summary row
IsDomainRow_NoReturn(row, dom) == Truthy(dom)

\* lines 215, 225, 228: the row is read as a domain row
IsDomainRow(row, dom) == row[2] # S_Pct /\ Truthy(dom)

process_row ==
    IF Discarded(current_row)
    THEN UNCHANGED <<lang_percentages, domains, domain_counts, in_pct_row, raised>>
    ELSE LET summary == current_row[2] = S_Pct
             got == DomainLoop(languages, current_row, 1,
                               [entries |-> EmptyDict, count |-> 0])
             last == current_row[Len(current_row)]
             n == ParseInt(last)
         IN  /\ in_pct_row' = (in_pct_row \/ summary)
             /\ lang_percentages' =
                    IF summary
                    THEN SummaryLoop(languages, current_row, 1, lang_percentages)
                    ELSE lang_percentages
             /\ IF IsDomainRow(current_row, mx_current_domain)
                THEN /\ domains' = DictSet(domains, mx_current_domain, got.entries)
                     /\ IF IsDigit(last)
                        THEN IF n.ok
                             THEN /\ domain_counts' =
                                        DictSet(domain_counts, mx_current_domain, n.val)
                                  /\ UNCHANGED raised
                             ELSE \* int() of a digit that is no decimal digit
                                  /\ raised' = "ValueError"
                                  /\ UNCHANGED domain_counts
                        ELSE /\ domain_counts' =
                                   DictSet(domain_counts, mx_current_domain, got.count)
                             /\ UNCHANGED raised
                ELSE UNCHANGED <<domains, domain_counts, raised>>

\* line 173 left out: the domain of the row before is kept
RowStartDomain_Kept(dom) == dom

\* line 173: self._current_domain = None
RowStartDomain(dom) == None

MX_handle_starttag(tag, attrs) ==
    LET href == AttrsGet(attrs, S_Href, <<>>)
    IN  IF tag = Tag_thead
        THEN /\ in_header' = TRUE
             /\ UNCHANGED <<languages, lang_percentages, domains, domain_counts,
                            in_pct_row, current_row, mx_current_domain, cell_index,
                            in_td, td_content, raised>>
        ELSE IF tag = Tag_tbody
        THEN /\ in_header' = FALSE
             /\ UNCHANGED <<languages, lang_percentages, domains, domain_counts,
                            in_pct_row, current_row, mx_current_domain, cell_index,
                            in_td, td_content, raised>>
        ELSE IF tag = Tag_tr
        THEN /\ current_row' = <<>>
             /\ cell_index' = 0
             /\ mx_current_domain' = RowStartDomain(mx_current_domain)
             /\ UNCHANGED <<languages, lang_percentages, domains, domain_counts,
                            in_header, in_pct_row, in_td, td_content,
                            raised>>
        ELSE IF (tag = Tag_th /\ in_header) \/ tag = Tag_td
        THEN /\ in_td' = TRUE
             /\ td_content' = <<>>
             /\ UNCHANGED <<languages, lang_percentages, domains, domain_counts,
                            in_header, in_pct_row, current_row, mx_current_domain,
                            cell_index, raised>>
        ELSE IF tag = Tag_a /\ in_td
        THEN /\ IF href = None
                THEN \* "/team/" in None, or "/domain/" in None
                     /\ raised' = "TypeError"
                     /\ UNCHANGED <<languages, mx_current_domain>>
                ELSE IF in_header /\ Contains(href, S_Team)
                THEN LET lang == SearchGroup(href, S_Team)
                     IN  /\ languages' =
                               IF lang # None THEN AppendLanguage(languages, lang)
                               ELSE languages
                         /\ UNCHANGED <<mx_current_domain, raised>>
                ELSE IF Contains(href, S_Domain)
                THEN LET dom == SearchGroup(href, S_Domain)
                     IN  /\ mx_current_domain' =
                               IF dom # None THEN dom ELSE mx_current_domain
                         /\ UNCHANGED <<languages, raised>>
                ELSE UNCHANGED <<languages, mx_current_domain, raised>>
             /\ UNCHANGED <<lang_percentages, domains, domain_counts, in_header,
                            in_pct_row, current_row, cell_index, in_td, td_content>>
        ELSE UNCHANGED <<mx_vars, raised>>

MX_handle_data(text) ==
    IF in_td
    THEN /\ td_content' = td_content \o Strip(text)
         /\ UNCHANGED <<languages, lang_percentages, domains, domain_counts,
                        in_header, in_pct_row, current_row, mx_current_domain,
                        cell_index, in_td>>
    ELSE UNCHANGED mx_vars

MX_handle_endtag(tag) ==
    IF tag \in {Tag_td, Tag_th}
    THEN /\ current_row' = Append(current_row, Strip(td_content))
         /\ cell_index' = cell_index + 1
         /\ in_td' = FALSE
         /\ UNCHANGED <<languages, lang_percentages, domains, domain_counts,
                        in_header, in_pct_row, mx_current_domain, td_content,
                        raised>>
    ELSE IF tag = Tag_tr /\ ~in_header
    THEN /\ process_row
         /\ UNCHANGED <<languages, in_header, current_row, mx_current_domain,
                        cell_index, in_td, td_content>>
    ELSE UNCHANGED <<mx_vars, raised>>

\* The links, texts and tags a matrix page is drawn from.
MX_TeamHrefs == {
    <<".", ".">> \o S_Team \o <<"e", "n">> \o S_DotHtml,
    <<".", ".">> \o S_Team \o <<"f", "r">> \o S_DotHtml }
MX_Hrefs == MX_TeamHrefs \cup {
    <<".", ".">> \o S_Domain \o <<"c", "o", "r", "e", "u", "t", "i", "l", "s">> \o S_DotHtml }
\* the domain each link names as a domain-detail link, or None
MX_LinkDomain == [h \in MX_Hrefs |-> SearchGroup(h, S_Domain)]
MX_Attrs == {<<>>, <<<<S_Href, None>>>>} \cup {<<<<S_Href, h>>>> : h \in MX_Hrefs}
MX_Tags == {Tag_thead, Tag_tbody, Tag_tr, Tag_th, Tag_td, Tag_a}
\* A page's cells are drawn from one of these sets of texts.
MX_Vocabularies == {
    { S_Pct, <<"8", "7", "%">> },
    { S_Pct, <<"1", "5", "0", "%">> },
    { <<"-", "5", "%">> },
    { <<"0", "%">> },
    { <<"1", "0", "0", "%">>, <<NBSP>> },
    { <<"1", "2", "3">> },
    { <<"1", "0", SUP2>> } }
\* a page whose rows hold a percentage or a number followed by a superscript
MX_RowVocabularies == { { <<"5", "%">>, <<"1", "0", SUP2>> } }
\* The cells of a page with one column for every language of MX_TeamHrefs.
MX_WideVocabularies == {
    { S_Pct, <<"8", "7", "%">>, <<"4", "2", "%">> },
    { S_Pct, <<"a", "b", "c", "%">> },
    { <<"1", "0", "0", "%">>, <<NBSP>> } }
\* The cells of a page whose cell boundaries are recorded in cell_open and
\* opened_text.
MX_CellVocabularies == { { <<"8", "7", "%">>, <<"\f", "x", "\n">> } }

\* The exploration's limits for the page: the cells of a row, the languages
\* of the header and the rows handed to _process_row.
Wide == texts \in MX_WideVocabularies
RowCap == IF Wide THEN Cardinality(MX_TeamHrefs) + 2 ELSE MaxCells
LangCap == RowCap - 2
RowBudget == IF Wide THEN MaxRows - 1 ELSE MaxRows
TracksCells == texts \in MX_CellVocabularies

MX_StartTag ==
    /\ page = "matrix" /\ raised = "none" /\ rows_closed < RowBudget
    /\ \E ev \in {<<t, <<>> >> : t \in MX_Tags} \cup {<<Tag_a, a>> : a \in MX_Attrs} :
         /\ MX_handle_starttag(ev[1], ev[2])
         /\ Len(languages') <= LangCap
         /\ cell_open' = (cell_open \/ (TracksCells /\ ev[1] \in {Tag_th, Tag_td}))
         /\ opened_text' = IF ev[1] \in {Tag_th, Tag_td} THEN <<>> ELSE opened_text
         /\ row_link_domains' =
                IF ev[1] = Tag_tr THEN {}
                ELSE IF /\ ev[1] = Tag_a /\ in_td /\ ev[2] # <<>>
                        /\ ev[2][1][2] \in DOMAIN MX_LinkDomain
                        /\ MX_LinkDomain[ev[2][1][2]] # None
                THEN row_link_domains \cup {MX_LinkDomain[ev[2][1][2]]}
                ELSE row_link_domains
    /\ UNCHANGED <<page, texts, run, tp_vars, ix_vars, tp_hist, ix_hist, rows_closed>>

MX_Data ==
    /\ page = "matrix" /\ raised = "none" /\ rows_closed < RowBudget
    /\ \E text \in texts :
         /\ MX_handle_data(text)
         /\ Len(td_content') <= MaxCellLen
         /\ opened_text' = IF cell_open THEN opened_text \o text ELSE opened_text
         /\ Len(opened_text') <= MaxCellLen
    /\ UNCHANGED <<page, texts, run, raised, tp_vars, ix_vars, tp_hist, ix_hist,
                   rows_closed, cell_open, row_link_domains>>

\* rows_closed counts the calls of _process_row
MX_EndTag ==
    /\ page = "matrix" /\ raised = "none" /\ rows_closed < RowBudget
    /\ \E tag \in {Tag_td, Tag_th, Tag_tr} :
         /\ MX_handle_endtag(tag)
         /\ Len(current_row') <= RowCap
         /\ rows_closed' =
                IF tag = Tag_tr /\ ~in_header THEN rows_closed + 1 ELSE rows_closed
         /\ cell_open' = (cell_open /\ tag = Tag_tr)
         /\ opened_text' = IF tag = Tag_tr THEN opened_text ELSE <<>>
    /\ UNCHANGED <<page, texts, run, tp_vars, ix_vars, tp_hist, ix_hist, row_link_domains>>

NextMatrix == MX_StartTag \/ MX_Data \/ MX_EndTag

----------------------------------------------------------------------------
(* main: a lint run (language given; no list, report or statistics mode).  *)
(* run.pc is the position in main; run.ended tells how the run ended       *)
(* ("no" while it runs); run.dir_exists tells whether the directory made   *)
(* by tempfile.mkdtemp is on disk.                                         *)

S_Tmp == <<"t", "p", "-", "l", "i", "n", "t", "-">>
S_Sv == <<"s", "v", "/">>
S_Dash == <<"-">>
S_Dot == <<".">>
S_Coreutils == <<"c", "o", "r", "e", "u", "t", "i", "l", "s">>

\* the PO files a team page may list, and the -p options of a run
MN_Urls == {
    TP_BASE \o S_PoFiles \o S_Sv \o S_Coreutils \o <<"-", "9", ".", "1", ".", "s", "v", ".", "p", "o">>,
    TP_BASE \o S_PoFiles \o S_Sv \o <<"g", "n", "u", "-", "t", "o", "o", "l", "s", "-", "1", ".", "s", "v", ".", "p", "o">> }
MN_UrlLists == UNION {[1..n -> MN_Urls] : n \in 0..MaxPoFiles}
MN_Packages == {None, <<S_Coreutils>>}
MN_Issues == SUBSET {"error", "fuzzy", "warning"}

\* before main is entered: no option is parsed, no local is bound
NotStarted == [pc |-> "start", ended |-> "no"]

\* return code from main
Return(r, code) == [r EXCEPT !.pc = "done", !.ended = "return", !.returncode = code]
\* sys.exit(code) inside a function main calls
SysExit(r, code) == [r EXCEPT !.pc = "done", !.ended = "sys.exit", !.returncode = code]

\* lines 1212-1218: the urls whose filename starts with pkg + "-" or pkg + "."
PackageMatch(url, packages) ==
    \E k \in 1..Len(packages) :
        \/ StartsWith(LastSegment(url), packages[k] \o S_Dash)
        \/ StartsWith(LastSegment(url), packages[k] \o S_Dot)
FilterPackages(po_urls, packages) ==
    SelectSeq(po_urls, LAMBDA url : PackageMatch(url, packages))

\* line 1353: the return code of by-translator mode
TranslatorReturnCode(issues, strict) ==
    IF "error" \in issues THEN 2
    ELSE IF "warning" \in issues \/ (strict /\ "fuzzy" \in issues) THEN 1
    ELSE 0

\* parse_args: the options of this run
M_Start ==
    /\ page = "main" /\ run.pc = "start"
    /\ \E output, keep, no_lint, by_translator, strict \in BOOLEAN,
          packages \in MN_Packages :
         run' = [pc |-> "fetch", ended |-> "no", returncode |-> None,
                 output |-> output, keep |-> keep, no_lint |-> no_lint,
                 by_translator |-> by_translator, strict |-> strict,
                 packages |-> packages,
                 po_urls |-> <<>>, i |-> 0, downloaded |-> <<>>,
                 temp_dir |-> None, keep_files |-> FALSE, dir_exists |-> FALSE]
    /\ UNCHANGED <<page, texts, raised, tp_vars, ix_vars, mx_vars,
                   tp_hist, ix_hist, mx_hist>>

\* lines 1201-1207: fetch the file list; none is return 1
M_Fetch ==
    /\ page = "main" /\ run.pc = "fetch"
    /\ \E po_urls \in MN_UrlLists :
         run' = IF po_urls = <<>> THEN Return(run, 1)
                ELSE [run EXCEPT !.pc = "filter", !.po_urls = po_urls]
    /\ UNCHANGED <<page, texts, raised, tp_vars, ix_vars, mx_vars,
                   tp_hist, ix_hist, mx_hist>>

\* lines 1209-1222: the package filter; no match is return 1
M_Filter ==
    /\ page = "main" /\ run.pc = "filter"
    /\ run' = IF ~Truthy(run.packages) THEN [run EXCEPT !.pc = "setup"]
              ELSE LET filtered == FilterPackages(run.po_urls, run.packages)
                   IN  IF filtered = <<>> THEN Return(run, 1)
                       ELSE [run EXCEPT !.pc = "setup", !.po_urls = filtered]
    /\ UNCHANGED <<page, texts, raised, tp_vars, ix_vars, mx_vars,
                   tp_hist, ix_hist, mx_hist>>

\* lines 1227-1240: the output directory
M_SetupOutput ==
    /\ page = "main" /\ run.pc = "setup"
    /\ run' = IF run.output \/ run.keep
              THEN [run EXCEPT !.pc = "download", !.i = 1,
                               !.temp_dir = None, !.keep_files = TRUE]
              ELSE [run EXCEPT !.pc = "download", !.i = 1,
                               !.temp_dir = S_Tmp, !.keep_files = FALSE,
                               !.dir_exists = TRUE]
    /\ UNCHANGED <<page, texts, raised, tp_vars, ix_vars, mx_vars,
                   tp_hist, ix_hist, mx_hist>>

\* lines 1250-1266, one pass of the loop: download_po_file gives a path,
\* or None when the download failed
M_Download ==
    /\ page = "main" /\ run.pc = "download" /\ run.i <= Len(run.po_urls)
    /\ \E ok \in BOOLEAN :
         run' = [run EXCEPT !.i = run.i + 1,
                            !.downloaded =
                                IF ok THEN Append(run.downloaded,
                                                  LastSegment(run.po_urls[run.i]))
                                ELSE run.downloaded]
    /\ UNCHANGED <<page, texts, raised, tp_vars, ix_vars, mx_vars,
                   tp_hist, ix_hist, mx_hist>>

\* lines 1290-1292: after the loop, nothing downloaded is return 1
M_Downloaded ==
    /\ page = "main" /\ run.pc = "download" /\ run.i > Len(run.po_urls)
    /\ run' = IF run.downloaded = <<>> THEN Return(run, 1)
              ELSE [run EXCEPT !.pc = "check"]
    /\ UNCHANGED <<page, texts, raised, tp_vars, ix_vars, mx_vars,
                   tp_hist, ix_hist, mx_hist>>

\* lines 1295-1300: check_l10n_lint; not available is return 1
M_CheckLint ==
    /\ page = "main" /\ run.pc = "check"
    /\ \E available \in BOOLEAN :
         run' = IF ~run.no_lint /\ ~available THEN Return(run, 1)
                ELSE [run EXCEPT !.pc = "lint"]
    /\ UNCHANGED <<page, texts, raised, tp_vars, ix_vars, mx_vars,
                   tp_hist, ix_hist, mx_hist>>

\* lines 1308-1353 with run_l10n_lint_per_file (889-912): FileNotFoundError
\* from subprocess.run is sys.exit(1)
M_LintByTranslator ==
    /\ page = "main" /\ run.pc = "lint" /\ ~run.no_lint /\ run.by_translator
    /\ \E found \in BOOLEAN, issues \in MN_Issues :
         run' = IF ~found THEN SysExit(run, 1)
                ELSE [run EXCEPT !.pc = "cleanup",
                                 !.returncode = TranslatorReturnCode(issues, run.strict)]
    /\ UNCHANGED <<page, texts, raised, tp_vars, ix_vars, mx_vars,
                   tp_hist, ix_hist, mx_hist>>

\* lines 1354-1366 with run_l10n_lint (864-886): the return code is the
\* subprocess's; FileNotFoundError is sys.exit(1)
M_LintDirectory ==
    /\ page = "main" /\ run.pc = "lint" /\ ~run.no_lint /\ ~run.by_translator
    /\ \E found \in BOOLEAN, code \in 0..2 :
         run' = IF ~found THEN SysExit(run, 1)
                ELSE [run EXCEPT !.pc = "cleanup", !.returncode = code]
    /\ UNCHANGED <<page, texts, raised, tp_vars, ix_vars, mx_vars,
                   tp_hist, ix_hist, mx_hist>>

\* lines 1367-1372: download only
M_DownloadOnly ==
    /\ page = "main" /\ run.pc = "lint" /\ run.no_lint
    /\ run' = [run EXCEPT !.pc = "cleanup", !.returncode = 0]
    /\ UNCHANGED <<page, texts, raised, tp_vars, ix_vars, mx_vars,
                   tp_hist, ix_hist, mx_hist>>

\* lines 1374-1383: remove the temporary directory, return returncode
M_Cleanup ==
    /\ page = "main" /\ run.pc = "cleanup"
    /\ run' = [Return(run, run.returncode) EXCEPT
                  !.dir_exists = IF ~run.keep_files /\ Truthy(run.temp_dir)
                                 THEN FALSE ELSE run.dir_exists]
    /\ UNCHANGED <<page, texts, raised, tp_vars, ix_vars, mx_vars,
                   tp_hist, ix_hist, mx_hist>>

NextMain ==
    \/ M_Start \/ M_Fetch \/ M_Filter \/ M_SetupOutput \/ M_Download
    \/ M_Downloaded \/ M_CheckLint \/ M_LintByTranslator \/ M_LintDirectory
    \/ M_DownloadOnly \/ M_Cleanup


----------------------------------------------------------------------------
(* The state after construction (the three __init__ methods).              *)

Construct ==
    /\ raised = "none"
    /\ po_files = <<>> /\ translators = EmptyDict
    /\ tp_current_domain = None /\ tp_in_translator_cell = FALSE
    /\ ix_languages = <<>> /\ prev_tag = None /\ current_lang_name = None
    /\ languages = <<>> /\ lang_percentages = EmptyDict
    /\ domains = EmptyDict /\ domain_counts = EmptyDict
    /\ in_header = FALSE /\ in_pct_row = FALSE /\ current_row = <<>>
    /\ mx_current_domain = None /\ cell_index = 0
    /\ in_td = FALSE /\ td_content = <<>>
    /\ po_targets = <<>> /\ in_row = FALSE
    /\ row_po_domains = {} /\ row_detail_domains = {}
    /\ seen_mail = FALSE /\ seen_domains = {} /\ armed_text = None
    /\ row_po_names = {}
    /\ matched_links = 0 /\ skipped_at = -1 /\ link_texts = {}
    /\ rows_closed = 0 /\ cell_open = FALSE /\ opened_text = <<>>
    /\ row_link_domains = {}
    /\ run = NotStarted

InitTeam == page = "team" /\ texts = TP_Texts /\ Construct
SpecTeam == InitTeam /\ [][NextTeam]_vars
InitTeamFiles == page = "team" /\ texts = TP_FileTexts /\ Construct
SpecTeamFiles == InitTeamFiles /\ [][NextTeam]_vars

InitIndex == page = "index" /\ texts = IX_Texts /\ Construct
SpecIndex == InitIndex /\ [][NextIndex]_vars

InitMatrix == page = "matrix" /\ texts \in MX_Vocabularies /\ Construct
SpecMatrix == InitMatrix /\ [][NextMatrix]_vars

\* a matrix page whose rows have a cell for every language
\* a matrix page whose cell boundaries are recorded
InitMatrixCells == page = "matrix" /\ texts \in MX_CellVocabularies /\ Construct
SpecMatrixCells == InitMatrixCells /\ [][NextMatrix]_vars

\* a matrix page with two rows for one domain
InitMatrixRows == page = "matrix" /\ texts \in MX_RowVocabularies /\ Construct
SpecMatrixRows == InitMatrixRows /\ [][NextMatrix]_vars

InitMatrixWide == page = "matrix" /\ texts \in MX_WideVocabularies /\ Construct
SpecMatrixWide == InitMatrixWide /\ [][NextMatrix]_vars

InitMain == page = "main" /\ texts = {} /\ Construct
SpecMain == InitMain /\ [][NextMain]_vars

\* one pass of any of the three extractors
Init == InitTeam \/ InitIndex \/ InitMatrix
Next == NextTeam \/ NextIndex \/ NextMatrix
Spec == Init /\ [][Next]_vars

----------------------------------------------------------------------------
(* Properties.  The history variables: po_targets holds the targets of the *)
(* PO-file links opened so far; in_row holds between an opening and the    *)
(* next closing tr tag, and row_po_domains and row_detail_domains hold the *)
(* domains implied by the PO-file links and named by the domain-detail     *)
(* links opened since the last tr tag; seen_mail and seen_domains record   *)
(* the mail links and link domains observed since the last closing tr tag; *)
(* matched_links counts the opened links matching the language-page        *)
(* pattern; rows_closed counts the rows handed to _process_row.            *)

SeqRange(q) == {q[i] : i \in 1..Len(q)}

\* C1: when a row holds a PO-file link implying one domain and a
\* domain-detail link naming another, _current_domain is the one the
\* domain-detail link names, in whichever order the two were opened.
C1_DomainLinkWins ==
    \A p \in row_po_domains, d \in row_detail_domains :
        (in_row /\ row_po_domains = {p} /\ row_detail_domains = {d} /\ p # d)
            => tp_current_domain = d

\* C2: every stored percentage, in lang_percentages and in every domains[d],
\* is an integer in 0..100.
C2_PercentagesInRange ==
    /\ \A l \in DOMAIN lang_percentages : lang_percentages[l] \in 0..100
    /\ \A d \in DOMAIN domains :
          \A l \in DOMAIN domains[d] : domains[d][l] \in 0..100

\* C3: no entry of domains holds the value 0.
C3_NoZeroEntries ==
    \A d \in DOMAIN domains : \A l \in DOMAIN domains[d] : domains[d][l] # 0

\* C4: domain_counts[d] is the number of languages recorded in domains[d].
C4_CountIsNumberOfEntries ==
    \A d \in DOMAIN domain_counts :
        d \in DOMAIN domains /\ domain_counts[d] = Cardinality(DOMAIN domains[d])

\* C5: no handler of any of the three extractors raises.
C5_NoErrorEscapes == raised = "none"

\* C6: every element of po_files begins with the site's base URL.
C6_PoFilesAbsolute ==
    \A k \in 1..Len(po_files) : StartsWith(po_files[k], TP_BASE)

\* C7: the k-th PO-file link "../PO-files/<file>" is stored as
\* "<base>/PO-files/<file>" and "/PO-files/<file>" is stored as
\* "<base>/PO-files/<file>", so the two forms of one file are stored alike.
C7_RelativeNormalization ==
    /\ Len(po_files) = Len(po_targets)
    /\ \A k \in 1..Len(po_targets) :
          LET t == po_targets[k]
          IN  /\ StartsWith(t, <<".", ".">> \o S_PoFiles)
                    => po_files[k] = TP_BASE \o DropFirst(t, 2)
              /\ StartsWith(t, S_PoFiles) => po_files[k] = TP_BASE \o t
    /\ \A j, k \in 1..Len(po_targets) :
          (StartsWith(po_targets[k], S_PoFiles)
             /\ po_targets[j] = <<".", ".">> \o po_targets[k])
            => po_files[j] = po_files[k]

\* both forms of one file have been opened
C7_Witness ==
    \E j, k \in 1..Len(po_targets) :
        /\ StartsWith(po_targets[k], S_PoFiles)
        /\ po_targets[j] = <<".", ".">> \o po_targets[k]
        /\ Len(po_files) = 2

\* C8: languages holds no more entries than matching links were opened.
C8_OneEntryPerMatchedLink == Len(ix_languages) <= matched_links

\* C9: _in_translator_cell and _current_domain are only ever set by a mail
\* link and a domain observed since the last closing tr tag (so both are
\* clear right after one), and every write to translators stores under such
\* a domain, with such a mail link seen, and changes no other entry.
C9_ArmedInRow ==
    /\ tp_in_translator_cell => seen_mail
    /\ tp_current_domain # None => tp_current_domain \in seen_domains
C9_WriteInRow ==
    translators' # translators =>
        /\ seen_mail
        /\ \E d \in seen_domains :
              /\ DOMAIN translators' = DOMAIN translators \cup {d}
              /\ \A k \in DOMAIN translators :
                    k # d => translators'[k] = translators[k]
C9_RowScoped == []C9_ArmedInRow /\ [][C9_WriteInRow]_vars

\* a translator was recorded in an earlier row, and the current row has set
\* a domain and has had no mail link
C9_Witness ==
    /\ DOMAIN translators # {}
    /\ tp_current_domain # None
    /\ ~seen_mail

\* C10: the keys of lang_percentages and of every domains[d] are members of
\* languages, and lang_percentages has at most len(languages) keys.
C10_KeysAreLanguages ==
    /\ DOMAIN lang_percentages \subseteq SeqRange(languages)
    /\ Cardinality(DOMAIN lang_percentages) <= Len(languages)
    /\ \A d \in DOMAIN domains : DOMAIN domains[d] \subseteq SeqRange(languages)

\* a summary row and a domain row have both stored a percentage
C10_Witness ==
    /\ DOMAIN lang_percentages # {}
    /\ \E d \in DOMAIN domains : DOMAIN domains[d] # {}

----------------------------------------------------------------------------
(* Properties of one processed row of the matrix.  A step that raises      *)
(* rows_closed is a closing tr tag outside the header: it hands current_row *)
(* to _process_row.  Position i of languages reads the row's cell i+2,     *)
(* which is current_row[i + 2] here, where sequences start at 1.           *)

RowClosed == rows_closed' = rows_closed + 1
SummaryRowClosed ==
    RowClosed /\ Len(current_row) >= 3 /\ current_row[2] = S_Pct
DomainRowClosed ==
    /\ RowClosed /\ Len(current_row) >= 3 /\ current_row[2] # S_Pct
    /\ Truthy(mx_current_domain)

\* the integer the cell of position i holds once "%" is removed, if any
CellInt(i) == ParseInt(RemovePercent(current_row[i + 2]))
\* the cell of position i exists, is not empty, is not the placeholder and
\* holds an integer
ValidCell(i) ==
    /\ i + 2 <= Len(current_row)
    /\ current_row[i + 2] # <<>> /\ current_row[i + 2] # <<NBSP>>
    /\ CellInt(i).ok
\* no later position of languages holds the code of position i
LastPosition(i) ==
    \A j \in (i + 1)..Len(languages) : languages[j] # languages[i]

L_en == <<"e", "n">>
L_fr == <<"f", "r">>
D_coreutils == <<"c", "o", "r", "e", "u", "t", "i", "l", "s">>
ExampleSummaryRow == << <<>>, S_Pct, <<"8", "7", "%">>, <<"4", "2", "%">> >>
\* the row [name, "", "100%", placeholder]: a cell is appended trimmed, so
\* the placeholder cell reads as the empty text
IsExampleDomainRow(row) ==
    Len(row) = 4 /\ SubSeq(row, 2, 4) = << <<>>, <<"1", "0", "0", "%">>, <<>> >>

\* C11 as stated: when a row whose cell 1 is "Pct" and that has at least
\* len(languages)+2 cells closes outside the header, lang_percentages maps
\* the language of every position i to the integer of cell i+2; the header
\* en, fr and the row ["", "Pct", "87%", "42%"] give {en: 87, fr: 42}.
C11_ColumnOffset ==
    [][(SummaryRowClosed /\ Len(current_row) >= Len(languages) + 2) =>
          /\ \A i \in 1..Len(languages) :
                CellInt(i).ok =>
                    /\ languages[i] \in DOMAIN lang_percentages'
                    /\ lang_percentages'[languages[i]] = CellInt(i).val
          /\ (languages = <<L_en, L_fr>> /\ current_row = ExampleSummaryRow) =>
                /\ DOMAIN lang_percentages' = {L_en, L_fr}
                /\ lang_percentages'[L_en] = 87
                /\ lang_percentages'[L_fr] = 42]_vars

\* C11 amended: the same for every position i whose code occurs at no later
\* position of languages (of a code the header named twice, the last
\* column's integer is the one kept).
C11_ColumnOffsetOfLastPosition ==
    [][(SummaryRowClosed /\ Len(current_row) >= Len(languages) + 2) =>
          /\ \A i \in 1..Len(languages) :
                (CellInt(i).ok /\ LastPosition(i)) =>
                    /\ languages[i] \in DOMAIN lang_percentages'
                    /\ lang_percentages'[languages[i]] = CellInt(i).val
          /\ (languages = <<L_en, L_fr>> /\ current_row = ExampleSummaryRow) =>
                /\ DOMAIN lang_percentages' = {L_en, L_fr}
                /\ lang_percentages'[L_en] = 87
                /\ lang_percentages'[L_fr] = 42]_vars

\* the example's summary row has been processed under the header en, fr
C11_Witness ==
    /\ rows_closed = RowBudget
    /\ languages = <<L_en, L_fr>>
    /\ current_row = ExampleSummaryRow
    /\ ~in_header /\ in_pct_row
    /\ lang_percentages[L_en] = 87 /\ lang_percentages[L_fr] = 42

\* the positions of languages whose cell is stored, and the last of them
\* that holds the code l
ValidPositions == {i \in 1..Len(languages) : ValidCell(i)}
LastValidPosition(l) ==
    CHOOSE i \in ValidPositions :
        /\ languages[i] = l
        /\ \A j \in ValidPositions : languages[j] = l => j <= i

\* C12 as stated: when a domain row of domain d with at least 3 cells closes
\* outside the header, domains[d] maps languages[i] to the integer of cell
\* i+2 for exactly the positions i whose cell exists, is not empty, is not
\* the placeholder and holds an integer, and holds no other entry; only
\* those cells are counted; the row [coreutils, "", "100%", placeholder]
\* under en, fr gives domains[coreutils] = {en: 100} and the count 1.
C12_DomainRowEntries ==
    [][DomainRowClosed =>
          LET d == mx_current_domain
              last == current_row[Len(current_row)]
          IN  /\ d \in DOMAIN domains'
              /\ DOMAIN domains'[d] \subseteq SeqRange(languages)
              /\ \A i \in 1..Len(languages) :
                    IF ValidCell(i)
                    THEN /\ languages[i] \in DOMAIN domains'[d]
                         /\ domains'[d][languages[i]] = CellInt(i).val
                    ELSE languages[i] \notin DOMAIN domains'[d]
              /\ ~IsDigit(last) =>
                    /\ d \in DOMAIN domain_counts'
                    /\ domain_counts'[d] = Cardinality(ValidPositions)
              /\ (languages = <<L_en, L_fr>> /\ IsExampleDomainRow(current_row)) =>
                    /\ DOMAIN domains'[d] = {L_en}
                    /\ domains'[d][L_en] = 100
                    /\ domain_counts'[d] = 1]_vars

\* C12 amended: domains[d] holds an entry for exactly the languages that
\* have such a position, and the entry is the integer of the last such
\* position of the language; the rest as stated.
C12_DomainRowEntriesOfLastPosition ==
    [][DomainRowClosed =>
          LET d == mx_current_domain
              last == current_row[Len(current_row)]
              stored == {languages[i] : i \in ValidPositions}
          IN  /\ d \in DOMAIN domains'
              /\ DOMAIN domains'[d] = stored
              /\ \A l \in stored :
                    domains'[d][l] = CellInt(LastValidPosition(l)).val
              /\ ~IsDigit(last) =>
                    /\ d \in DOMAIN domain_counts'
                    /\ domain_counts'[d] = Cardinality(ValidPositions)
              /\ (languages = <<L_en, L_fr>> /\ IsExampleDomainRow(current_row)) =>
                    /\ DOMAIN domains'[d] = {L_en}
                    /\ domains'[d][L_en] = 100
                    /\ domain_counts'[d] = 1]_vars

\* the example's domain row has been processed under the header en, fr
C12_Witness ==
    /\ rows_closed = RowBudget
    /\ languages = <<L_en, L_fr>>
    /\ IsExampleDomainRow(current_row)
    /\ mx_current_domain = D_coreutils /\ ~in_header
    /\ D_coreutils \in DOMAIN domains /\ DOMAIN domains[D_coreutils] = {L_en}
    /\ domain_counts[D_coreutils] = 1

\* C13 as stated: in a summary row, a cell i+2 that holds no integer once
\* "%" is removed makes lang_percentages[languages[i]] 0; the key is there,
\* nothing is raised, and every later language with a cell gets its key.
C13_MalformedCellIsZero ==
    [][SummaryRowClosed =>
          \A i \in 1..Len(languages) :
              (i + 2 <= Len(current_row) /\ ~CellInt(i).ok) =>
                  /\ raised' = "none"
                  /\ languages[i] \in DOMAIN lang_percentages'
                  /\ lang_percentages'[languages[i]] = 0
                  /\ \A j \in (i + 1)..Len(languages) :
                        j + 2 <= Len(current_row) =>
                            languages[j] \in DOMAIN lang_percentages']_vars

\* C13 amended: the value is 0 when the code of position i occurs at no
\* later position of languages that has a cell; the rest as stated.
C13_MalformedCellIsZeroOfLastPosition ==
    [][SummaryRowClosed =>
          \A i \in 1..Len(languages) :
              (i + 2 <= Len(current_row) /\ ~CellInt(i).ok) =>
                  /\ raised' = "none"
                  /\ languages[i] \in DOMAIN lang_percentages'
                  /\ (\A j \in (i + 1)..Len(languages) :
                         j + 2 <= Len(current_row) => languages[j] # languages[i])
                        => lang_percentages'[languages[i]] = 0
                  /\ \A j \in (i + 1)..Len(languages) :
                        j + 2 <= Len(current_row) =>
                            languages[j] \in DOMAIN lang_percentages']_vars

\* a summary row whose cell for en is "abc%" has been processed
C13_Witness ==
    /\ rows_closed = RowBudget
    /\ languages = <<L_en, L_fr>>
    /\ Len(current_row) = 4 /\ current_row[2] = S_Pct
    /\ current_row[3] = <<"a", "b", "c", "%">>
    /\ raised = "none"
    /\ DOMAIN lang_percentages = {L_en, L_fr}
    /\ lang_percentages[L_en] = 0

----------------------------------------------------------------------------
(* Properties of the index and team pages.  skipped_at is the number of    *)
(* entries languages held when a code was first observed in a table cell   *)
(* while no display name was pending (-1 before that);                     *)
(* armed_text is the first non-empty text observed since the mail link     *)
(* that set _in_translator_cell, while that text has not been stored       *)
(* (None when there is none).                                              *)

\* C14: a text holding a two- or three-letter code, observed after a td tag
\* while no display name is pending, leaves languages unchanged and raises
\* nothing (no event changes languages while no name is pending); the same
\* text observed while a name is pending appends (code, name), also after a
\* code was skipped.
C14_StrayCodeSkipped ==
    [][/\ (page = "index" /\ ~Truthy(current_lang_name)) =>
              ix_languages' = ix_languages
       /\ \A text \in texts :
              (/\ page = "index" /\ prev_tag = Tag_td /\ LangCode(Strip(text))
               /\ IX_handle_data(text) /\ matched_links' = matched_links) =>
                  /\ raised' = "none"
                  /\ IF Truthy(current_lang_name)
                     THEN ix_languages' =
                              Append(ix_languages, <<Strip(text), current_lang_name>>)
                     ELSE ix_languages' = ix_languages]_vars

\* a code was skipped, and a later link's name and code were emitted
C14_Witness ==
    /\ skipped_at = 0 /\ raised = "none"
    /\ Len(ix_languages) = 1
    /\ ix_languages[1] = << <<"s", "v">>, <<"S", "w", "e", "d", "i", "s", "h">> >>
    /\ matched_links = 1

\* C15: po_files holds, in the order of opening, the normalized target of
\* every link opened so far that contains /PO-files/ and ends in .po, and
\* every event leaves the elements it already holds in place: none is
\* removed, moved or merged with an equal one.
C15_Normalized ==
    /\ Len(po_files) = Len(po_targets)
    /\ \A k \in 1..Len(po_targets) : po_files[k] = NormalizeHref(po_targets[k])
C15_OnlyAppends ==
    /\ Len(po_files') \in {Len(po_files), Len(po_files) + 1}
    /\ SubSeq(po_files', 1, Len(po_files)) = po_files
C15_PoFilesInDocumentOrder == []C15_Normalized /\ [][C15_OnlyAppends]_vars

\* the same file was linked twice, by two different targets, and a row with
\* a translator was read
C15_Witness ==
    /\ Len(po_files) = 2 /\ po_files[1] = po_files[2]
    /\ po_targets[1] # po_targets[2]
    /\ DOMAIN translators # {} /\ ~in_row

\* C16: every value stored in translators is the first non-empty text
\* observed after the mail link that set _in_translator_cell: when an
\* earlier non-empty text has followed that link (armed_text), the value
\* written is that text, not the text of a later link or cell.
C16_TranslatorIsMailText ==
    [][(translators' # translators /\ armed_text # None) =>
          /\ tp_current_domain \in DOMAIN translators'
          /\ translators'[tp_current_domain] = armed_text]_vars

----------------------------------------------------------------------------
(* Properties of the cells and rows of the matrix.  On the pages of        *)
(* MX_CellVocabularies, cell_open holds between an opening th or td tag    *)
(* and the next closing one, and opened_text is the text observed since    *)
(* that opening tag.                                                       *)

\* C17: a closing th or td tag appends to current_row exactly the trimmed
\* text observed since that cell's opening tag, for th and td cells alike,
\* inside and outside the header.
C17_CellIsItsOwnText ==
    [][(cell_open /\ Len(current_row') = Len(current_row) + 1) =>
          current_row'[Len(current_row')] = Strip(opened_text)]_vars

\* a row has been processed as a summary row or as a domain row
SomeRowProcessed == in_pct_row \/ DOMAIN domains # {}

\* C18: languages is captured before any row is processed: a code is
\* appended only while in_header is true, no row is processed while
\* in_header is true, and no event changes languages once a summary or
\* domain row has been processed.
C18_LanguagesBeforeRows ==
    [][/\ languages' # languages => (in_header /\ ~SomeRowProcessed)
       /\ (lang_percentages' # lang_percentages \/ domains' # domains
              \/ domain_counts' # domain_counts \/ in_pct_row' # in_pct_row)
             => ~in_header]_vars

\* C19: closing a row of fewer than 3 cells leaves languages,
\* lang_percentages, domains and domain_counts as they were, whatever the
\* row's cell 1 and whether or not a domain link was opened in it.
C19_ShortRowDiscarded ==
    [][(RowClosed /\ Len(current_row) < 3) =>
          UNCHANGED <<languages, lang_percentages, domains, domain_counts>>]_vars

\* a row of two cells with the label "Pct" and a domain link was closed last,
\* under a header of one language, and nothing was recorded
C19_Witness ==
    /\ rows_closed = RowBudget
    /\ Len(current_row) = 2 /\ current_row[2] = S_Pct
    /\ mx_current_domain = D_coreutils
    /\ languages = <<L_en>> /\ ~in_header
    /\ lang_percentages = EmptyDict /\ domains = EmptyDict
    /\ domain_counts = EmptyDict

\* C20: processing a summary row (at least 3 cells, cell 1 "Pct") leaves
\* domains, domain_counts and languages as they were, also when a domain
\* link opened in the row set _current_domain.
C20_SummaryRowOnly ==
    [][SummaryRowClosed => UNCHANGED <<domains, domain_counts, languages>>]_vars

\* a summary row holding a domain link was closed last: a percentage was
\* recorded and no domain
C20_Witness ==
    /\ rows_closed = RowBudget
    /\ Len(current_row) = 3 /\ current_row[2] = S_Pct
    /\ mx_current_domain = D_coreutils /\ ~in_header
    /\ languages = <<L_en>> /\ L_en \in DOMAIN lang_percentages
    /\ lang_percentages[L_en] = 87
    /\ domains = EmptyDict /\ domain_counts = EmptyDict

----------------------------------------------------------------------------
(* Properties of the count and the domain of a processed domain row.       *)

\* the count a domain row yields: the value of its last cell when that cell
\* consists only of decimal digits, else the number of cells stored
RowCount ==
    LET last == current_row[Len(current_row)]
    IN  IF last # <<>> /\ AllIn(last, Digits) THEN DigitsValue(last)
        ELSE Cardinality(ValidPositions)

\* C21: when a domain row of domain d is processed, domain_counts[d] becomes
\* the integer value of the row's last cell if that cell consists only of
\* digits, and the running count of the cells stored for the row otherwise.
C21_CountFromLastCell ==
    [][DomainRowClosed =>
          /\ mx_current_domain \in DOMAIN domain_counts'
          /\ domain_counts'[mx_current_domain] = RowCount]_vars

\* C22: _current_domain is row-scoped.  row_link_domains holds the domains
\* named by the domain-detail links opened in a cell since the last opening
\* tr tag.  A closing row changes domains and domain_counts only at a
\* domain of row_link_domains, so a row without such a link changes neither,
\* whatever the row before it captured.
C22_DomainOfThisRow ==
    [][(domains' # domains \/ domain_counts' # domain_counts) =>
          /\ RowClosed
          /\ mx_current_domain \in row_link_domains
          /\ \A d \in DOMAIN domains :
                d # mx_current_domain =>
                    d \in DOMAIN domains' /\ domains'[d] = domains[d]
          /\ \A d \in DOMAIN domain_counts :
                d # mx_current_domain =>
                    d \in DOMAIN domain_counts' /\ domain_counts'[d] = domain_counts[d]
          /\ DOMAIN domains' \subseteq DOMAIN domains \cup {mx_current_domain}
          /\ DOMAIN domain_counts' \subseteq DOMAIN domain_counts \cup {mx_current_domain}]_vars

\* the first row recorded a domain; the second row, with three cells, a
\* percentage and no domain link, was closed last and recorded nothing more
C22_Witness ==
    /\ rows_closed = RowBudget /\ rows_closed >= 2
    /\ row_link_domains = {} /\ mx_current_domain = None /\ ~in_header
    /\ languages = <<L_en>>
    /\ Len(current_row) = 3 /\ current_row[3] = <<"8", "7", "%">>
    /\ DOMAIN domains = {D_coreutils} /\ DOMAIN domains[D_coreutils] = {L_en}
    /\ DOMAIN domain_counts = {D_coreutils}

\* C24: when the last cell of a domain row is not a number, the count
\* stored for the domain is the number of keys of its entry, also when the
\* header names a language code twice.
C24_FallbackCountsKeys ==
    [][(/\ DomainRowClosed
        /\ raised' = "none"
        /\ ~(current_row[Len(current_row)] # <<>>
               /\ AllIn(current_row[Len(current_row)], Digits)))
          => /\ mx_current_domain \in DOMAIN domain_counts'
             /\ mx_current_domain \in DOMAIN domains'
             /\ domain_counts'[mx_current_domain] =
                   Cardinality(DOMAIN domains'[mx_current_domain])]_vars

\* C27: when a domain row closes for a domain d that an earlier row
\* already recorded, domains[d] holds afterwards the entries read from this
\* row and no other (an entry of the earlier row for a language this row
\* leaves empty is gone), and domain_counts[d] is this row's count.
C27_SecondRowReplaces ==
    [][(DomainRowClosed /\ mx_current_domain \in DOMAIN domains) =>
          LET d == mx_current_domain
              stored == {languages[i] : i \in ValidPositions}
          IN  /\ d \in DOMAIN domains'
              /\ DOMAIN domains'[d] = stored
              /\ \A l \in stored :
                    domains'[d][l] = CellInt(LastValidPosition(l)).val
              /\ d \in DOMAIN domain_counts'
              /\ domain_counts'[d] = RowCount]_vars

\* C23: opening a link that matches the language-page pattern clears the
\* pending name.  link_texts holds the trimmed, non-empty texts observed
\* after an opening a tag since the most recent matching link was opened
\* (since the start while none was).  Right after a matching link no name
\* is pending; the name of every entry appended is a capitalized text of
\* link_texts; and a code cell emits nothing while link_texts holds no
\* capitalized text.
C23_Cleared ==
    \A tag \in IX_Tags, attrs \in IX_Attrs :
        LET href == AttrsGet(attrs, S_Href, <<>>)
        IN  (/\ page = "index" /\ tag = Tag_a /\ href # None /\ LangPageMatch(href)
             /\ IX_handle_starttag(tag, attrs) /\ matched_links' = matched_links + 1)
                => current_lang_name' = None
C23_NameFromLaterText ==
    (page = "index" /\ ix_languages' # ix_languages) =>
        /\ Len(ix_languages') = Len(ix_languages) + 1
        /\ SubSeq(ix_languages', 1, Len(ix_languages)) = ix_languages
        /\ ix_languages'[Len(ix_languages')][2] \in link_texts
        /\ CapitalizedWord(ix_languages'[Len(ix_languages')][2])
C23_NameAfterMatchingLink == [][C23_Cleared /\ C23_NameFromLaterText]_vars

\* an entry was emitted, a second matching link cleared its name and a code
\* cell was skipped, and then a later link text was emitted as a new name
C23_Witness ==
    /\ page = "index" /\ raised = "none"
    /\ matched_links = 2 /\ skipped_at = 1
    /\ Len(ix_languages) = 2
    /\ ix_languages[1][2] = <<"S", "w", "e", "d", "i", "s", "h">>
    /\ ix_languages[2][2] = <<"F", "i", "n", "n", "i", "s", "h">>
    /\ link_texts = {<<"F", "i", "n", "n", "i", "s", "h">>}

\* C26: row_po_names holds the filenames of the PO links opened in the
\* current row.  When a translator is stored under a key, every file f of
\* the row whose domain the key is, either because the key is what the
\* PO-link pattern took from f or because a domain-detail link of the row
\* named the key and f is a file of that domain (key, "-", version), is
\* mapped by get_domain_from_filename to that key, so main's
\* translators.get finds the row's translator for f.
C26_FilenameDomainIsKey ==
    [][(page = "team" /\ translators' # translators) =>
          \A f \in row_po_names :
              (\/ FilenameDomain(f) = tp_current_domain
               \/ /\ tp_current_domain \in row_detail_domains
                  /\ StartsWith(f, tp_current_domain \o <<"-">>))
                 => get_domain_from_filename(f) = tp_current_domain]_vars

\* C25: when neither --keep nor --output is given, a run that ends after
\* tempfile.mkdtemp made the temporary directory has removed it: when no
\* file could be downloaded, when l10n-lint is not available, and when
\* linting or download-only mode finished.
C25_TempDirRemoved ==
    (/\ page = "main" /\ run.ended # "no"
     /\ ~run.keep /\ ~run.output /\ run.temp_dir # None)
        => ~run.dir_exists

====
